---- MODULE Spec2Model ----
(***************************************************************************)
(* tab_stats.py: read a JSON list of browser tab records, take the network *)
(* location of every record's url, count the locations and print the 30    *)
(* most common ones as a two-column table.                                 *)
(*                                                                         *)
(* Text is modelled as sequences of one-character strings, so that the     *)
(* URL splitting and the line formatting are computed character by         *)
(* character.  One behaviour is two consecutive invocations of the script  *)
(* with the same command line on the same, unmodified file system.         *)
(***************************************************************************)
EXTENDS Integers, Sequences, FiniteSets, TLC

\* ------------------------------------------------------------------ bounds
\* longest list of freely chosen tab records in the input file
MaxTabs == 3
\* largest number of records with pairwise distinct hosts in the input file
MaxWide == 31

\* ------------------------------------------------------- program constants
\* stats[:30]
TopN == 30
\* {domain:<40} and {'Domain':<40}
DomainWidth == 40
\* {count:<10} and {'Count':<10}
CountWidth == 10
\* "-" * 53
SepWidth == 53

\* --------------------------------------------------------- text primitives
Min(a, b) == IF a <= b THEN a ELSE b

\* c in s
In(c, s) == \E j \in 1..Len(s) : s[j] = c

\* s.find(c, start), 1-based; 0 when c does not occur from start on
Find(s, c, start) ==
    LET hits == {j \in start..Len(s) : s[j] = c}
    IN  IF hits = {} THEN 0 ELSE CHOOSE j \in hits : \A m \in hits : j <= m

\* s.lstrip(chars)
RECURSIVE lstrip(_, _)
lstrip(s, chars) ==
    IF s # <<>> /\ Head(s) \in chars THEN lstrip(Tail(s), chars) ELSE s

\* s.startswith(p)
StartsWith(s, p) == Len(s) >= Len(p) /\ SubSeq(s, 1, Len(p)) = p

\* n spaces, n copies of c
Repeat(c, n) == [j \in 1..n |-> c]

\* format(s, "<w"): left-justified in w columns, never truncated
Ljust(s, w) == IF Len(s) >= w THEN s ELSE s \o Repeat(" ", w - Len(s))

Digit(d) == <<"0", "1", "2", "3", "4", "5", "6", "7", "8", "9">>[d + 1]

\* str(n) of a natural number
RECURSIVE Str(_)
Str(n) == IF n < 10 THEN <<Digit(n)>> ELSE Str(n \div 10) \o <<Digit(n % 10)>>

\* ----------------------------------------------------- urllib.parse.urlparse
\* The characters urlsplit tells apart, restricted to those the modelled URLs
\* are written with.  No letter of Letters is a hexadecimal digit and "v" is
\* not among them.
Letters == {"h", "t", "p", "s", "x", "y", "z"}
SchemeChars == Letters \cup {"+", "-", "."}
C0ControlOrSpace == {" ", "\t", "\n", "\r"}
UnsafeBytes == {"\t", "\r", "\n"}
HexDigits == {"0", "1", "2", "3", "4", "5", "6", "7", "8", "9",
              "a", "b", "c", "d", "e", "f", "A", "B", "C", "D", "E", "F"}

\* _splitnetloc(url, 2)[0]: from the third character up to the first of / ? #
splitnetloc(url) ==
    LET ds    == {Find(url, c, 3) : c \in {"/", "?", "#"}} \ {0}
        delim == IF ds = {} THEN Len(url) + 1
                 ELSE CHOOSE d \in ds : \A e \in ds : d <= e
    IN  SubSeq(url, 3, delim - 1)

\* netloc.partition('[')[2].partition(']')[0]
BracketedHost(netloc) ==
    LET after == SubSeq(netloc, Find(netloc, "[", 1) + 1, Len(netloc))
        close == Find(after, "]", 1)
    IN  IF close = 0 THEN after ELSE SubSeq(after, 1, close - 1)

\* _check_bracketed_host(hostname) returns without raising.  A host that
\* starts with v must match v<hex>+.<any>+ ; any other host must be an IPv6
\* address, and the only IPv6 address written without a hexadecimal digit
\* is "::".
BracketedHostOk(hostname) ==
    IF hostname # <<>> /\ Head(hostname) = "v"
    THEN \E k \in 2..Len(hostname) :
            /\ \A j \in 2..k : hostname[j] \in HexDigits
            /\ k + 2 <= Len(hostname)
            /\ hostname[k + 1] = "."
    ELSE hostname = <<":", ":">>

\* urlsplit(url) for a str url: the exception it raises ("" for none) and
\* the netloc it returns.  _checknetloc returns at once on ASCII text.
urlsplit(url0) ==
    LET url1   == lstrip(url0, C0ControlOrSpace)
        url2   == SelectSeq(url1, LAMBDA c : c \notin UnsafeBytes)
        i      == Find(url2, ":", 1)
        scheme == /\ i > 1
                  /\ url2[1] \in Letters
                  /\ \A j \in 1..(i - 1) : url2[j] \in SchemeChars
        url3   == IF scheme THEN SubSeq(url2, i + 1, Len(url2)) ELSE url2
        netloc == IF StartsWith(url3, <<"/", "/">>) THEN splitnetloc(url3) ELSE <<>>
    IN  IF In("[", netloc) # In("]", netloc)
        THEN [raises |-> "ValueError", netloc |-> <<>>]
        ELSE IF In("[", netloc) /\ ~BracketedHostOk(BracketedHost(netloc))
        THEN [raises |-> "ValueError", netloc |-> <<>>]
        ELSE [raises |-> "", netloc |-> netloc]

\* A url value of a record: a string (t = "str", s its text), a falsy value
\* that is no string (null, 0, false: t = "falsy") or a truthy one (5:
\* t = "truthy").
\* urlparse(v).netloc: a domain is [bytes, s]; _coerce_args decodes a value
\* that is no str with `x.decode(...) if x else ''` and encodes the result,
\* so a falsy value gives b'' and a truthy one has no decode attribute.
urlparse(v) ==
    CASE v.t = "str" ->
            LET r == urlsplit(v.s)
            IN  [raises |-> r.raises, netloc |-> [bytes |-> FALSE, s |-> r.netloc]]
      [] v.t = "falsy" ->
            LET r == urlsplit(<<>>)
            IN  [raises |-> r.raises, netloc |-> [bytes |-> TRUE, s |-> r.netloc]]
      [] OTHER ->
            [raises |-> "AttributeError", netloc |-> [bytes |-> TRUE, s |-> <<>>]]

\* ------------------------------------------- collections.Counter, most_common
\* CounterAdd with `c[d] = 1` in place of `c[d] += 1`
CounterAddNoIncrement(c, d) ==
    IF \E j \in 1..Len(c) : c[j].domain = d
    THEN [j \in 1..Len(c) |->
            IF c[j].domain = d THEN [c[j] EXCEPT !.count = 1] ELSE c[j]]
    ELSE Append(c, [domain |-> d, count |-> 1])

\* Counter.update for one element: a dict keeps its keys in insertion order,
\* so the table is a sequence of [domain, count] in first-seen order.
CounterAdd(c, d) ==
    IF \E j \in 1..Len(c) : c[j].domain = d
    THEN [j \in 1..Len(c) |->
            IF c[j].domain = d THEN [c[j] EXCEPT !.count = @ + 1] ELSE c[j]]
    ELSE Append(c, [domain |-> d, count |-> 1])

\* Counter(domains)
RECURSIVE Counter(_)
Counter(ds) ==
    IF ds = <<>> THEN <<>>
    ELSE CounterAdd(Counter(SubSeq(ds, 1, Len(ds) - 1)), ds[Len(ds)])

\* SortedInsert as an unstable sort would do it: e goes before the entries
\* of equal count
SortedInsertUnstable(s, e) ==
    LET before == {j \in 0..Len(s) : \A m \in 1..j : s[m].count > e.count}
        p      == CHOOSE j \in before : \A m \in before : m <= j
    IN  SubSeq(s, 1, p) \o <<e>> \o SubSeq(s, p + 1, Len(s))

\* One step of sorted(..., key=itemgetter(1), reverse=True): e goes behind
\* every entry whose count is not smaller, so equal counts keep their order.
SortedInsert(s, e) ==
    LET before == {j \in 0..Len(s) : \A m \in 1..j : s[m].count >= e.count}
        p      == CHOOSE j \in before : \A m \in before : m <= j
    IN  SubSeq(s, 1, p) \o <<e>> \o SubSeq(s, p + 1, Len(s))

\* Counter.most_common() with n = None
RECURSIVE most_common(_)
most_common(c) ==
    IF c = <<>> THEN <<>>
    ELSE SortedInsert(most_common(SubSeq(c, 1, Len(c) - 1)), c[Len(c)])

\* Top without the slice: `for domain, count in stats`
TopAll(s) == s

\* stats[:30]
Top(s) == SubSeq(s, 1, Min(TopN, Len(s)))

\* ------------------------------------------------------------ printed lines
\* "Usage: python3 tab_stats.py <path_to_json>"
UsageLine == <<"U", "s", "a", "g", "e", ":", " ", "p", "y", "t", "h", "o", "n", "3", " ", "t", "a", "b", "_", "s", "t", "a", "t", "s", ".", "p", "y", " ", "<", "p", "a", "t", "h", "_", "t", "o", "_", "j", "s", "o", "n", ">">>

\* f"Error: File {json_path} not found."
NotFoundLine(path) == <<"E", "r", "r", "o", "r", ":", " ", "F", "i", "l", "e", " ">> \o path \o <<" ", "n", "o", "t", " ", "f", "o", "u", "n", "d", ".">>

ErrorReadingPrefix == <<"E", "r", "r", "o", "r", " ", "r", "e", "a", "d", "i", "n", "g", " ", "J", "S", "O", "N", ":", " ">>

\* str(e) of the exception open() or json.load() raised: PermissionError
\* from open(), JSONDecodeError from json.load() on the text `{not json`
StrExc(e, path) ==
    IF e = "PermissionError"
    THEN <<"[", "E", "r", "r", "n", "o", " ", "1", "3", "]", " ", "P", "e", "r", "m", "i", "s", "s", "i", "o", "n", " ", "d", "e", "n", "i", "e", "d", ":", " ", "'">> \o path \o <<"'">>
    ELSE <<"E", "x", "p", "e", "c", "t", "i", "n", "g", " ", "p", "r", "o", "p", "e", "r", "t", "y", " ", "n", "a", "m", "e", " ", "e", "n", "c", "l", "o", "s", "e", "d", " ", "i", "n", " ", "d", "o", "u", "b", "l", "e", " ", "q", "u", "o", "t", "e", "s", ":", " ", "l", "i", "n", "e", " ", "1", " ", "c", "o", "l", "u", "m", "n", " ", "2", " ", "(", "c", "h", "a", "r", " ", "1", ")">>

\* f"Error reading JSON: {e}"
ErrorReadingLine(e, path) == ErrorReadingPrefix \o StrExc(e, path)

\* f"{'Domain':<40} | {'Count':<10}"
HeaderLine == Ljust(<<"D", "o", "m", "a", "i", "n">>, DomainWidth) \o <<" ", "|", " ">> \o Ljust(<<"C", "o", "u", "n", "t">>, CountWidth)

\* "-" * 53
SeparatorLine == Repeat("-", SepWidth)

\* f"{domain:<40} | {count:<10}" for a str domain
RowLine(e) ==
    Ljust(e.domain.s, DomainWidth) \o <<" ", "|", " ">> \o Ljust(Str(e.count), CountWidth)

\* ------------------------------------------------------------------- inputs
\* elements of the JSON list
NoUrl     == [kind |-> "obj", hasurl |-> FALSE, url |-> [t |-> "falsy", s |-> <<>>]]
UrlRec(u) == [kind |-> "obj", hasurl |-> TRUE, url |-> [t |-> "str", s |-> u]]
FalsyRec  == [kind |-> "obj", hasurl |-> TRUE, url |-> [t |-> "falsy", s |-> <<>>]]
TruthyRec == [kind |-> "obj", hasurl |-> TRUE, url |-> [t |-> "truthy", s |-> <<>>]]
NumItem   == [kind |-> "num", hasurl |-> FALSE, url |-> [t |-> "falsy", s |-> <<>>]]

\* 'url' in t, for a t that supports the test
HasUrl(t) == t.hasurl

Urls == { <<"h", "t", "t", "p", ":", "/", "/", "y", "z", "/", "x">>, <<"h", "t", "t", "p", ":", "/", "/", "y", "z", "/", "s", "?", "x">>, <<"/", "/", "x", ".", "y">>, <<"y", "z", ".", "x">>,
          <<"h", "t", "t", "p", ":", "/", "/", "[">>, <<" ", "/", "/", "[", ":", ":", "]", ":", "8", "#">> }

Items == {NoUrl, FalsyRec, TruthyRec, NumItem} \cup {UrlRec(u) : u \in Urls}

FreeLists == UNION {[1..n -> Items] : n \in 0..MaxTabs}

\* n records whose hosts x, xx, xxx, ... are pairwise distinct
WideHost(j) == UrlRec(<<"/", "/">> \o Repeat("x", j))
WideLists ==
    {[j \in 1..n |-> WideHost(j)] \o tail :
        n \in (TopN - 1)..MaxWide,
        tail \in {<<>>, <<WideHost(2)>>, <<WideHost(TopN + 1), WideHost(TopN + 1)>>,
                  <<FalsyRec>>, <<NoUrl>>}}

\* The file the path names: missing; present and not readable; present with
\* text `{not json`; present with JSON text whose value is val.
JsonList(l) == [kind |-> "list", items |-> l]
JsonNumber  == [kind |-> "number", items |-> <<>>]
Unbound     == [kind |-> "unbound", items |-> <<>>]
File(e, r, j, v) == [exists |-> e, readable |-> r, json |-> j, val |-> v]
Missing     == File(FALSE, FALSE, FALSE, Unbound)
Unreadable  == File(TRUE, FALSE, TRUE, JsonList(<<>>))
NotJson     == File(TRUE, TRUE, FALSE, Unbound)
SmallFiles  == {Missing, Unreadable, NotJson, File(TRUE, TRUE, TRUE, JsonNumber),
                File(TRUE, TRUE, TRUE, JsonList(<<UrlRec(<<"/", "/", "x", ".", "y">>), NoUrl>>))}
ListFiles   == {File(TRUE, TRUE, TRUE, JsonList(l)) : l \in FreeLists \cup WideLists}

Script == <<"t", "a", "b", "_", "s", "t", "a", "t", "s", ".", "p", "y">>
Paths  == {<<"t", ".", "j", "s", "o", "n">>, <<"m", "i", "s", "s", "i", "n", "g", ".", "j", "s", "o", "n">>}
Argvs  == {<<Script>>} \cup {<<Script, p>> : p \in Paths}
              \cup {<<Script, p, q>> : p, q \in Paths}

\* -------------------------------------------------------------------- state
VARIABLES
    argv,       \* sys.argv
    fs,         \* the file sys.argv[1] names, the same for every invocation
    run,        \* number of the current invocation
    prevOut,    \* standard output of the previous invocation
    pc,         \* position in the script; "exit" and "crash" are its two ends
    raised,     \* the exception that ended the process, "" for none
    json_path,  \* main's parameter
    fopen,      \* f is open
    opens,      \* number of open() calls that returned a handle
    exc,        \* the exception in flight inside the try block, "" for none
    tabs,       \* json.load's value
    i,          \* position of the comprehension in tabs
    domains,    \* the list the comprehension builds
    stats,      \* Counter(domains).most_common()
    k,          \* position of the for loop in stats[:30]
    out         \* lines printed to standard output

vars == <<argv, fs, run, prevOut, pc, raised, json_path, fopen, opens, exc,
          tabs, i, domains, stats, k, out>>

env    == <<argv, fs, run, prevOut>>
locals == <<json_path, fopen, opens, exc, tabs, i, domains, stats, k>>

Init ==
    /\ \/ argv \in Argvs /\ fs \in SmallFiles
       \/ argv = <<Script, <<"t", ".", "j", "s", "o", "n">>>> /\ fs \in ListFiles
    /\ run = 1
    /\ prevOut = <<>>
    /\ pc = "start"
    /\ raised = ""
    /\ json_path = <<>>
    /\ fopen = FALSE
    /\ opens = 0
    /\ exc = ""
    /\ tabs = Unbound
    /\ i = 1
    /\ domains = <<>>
    /\ stats = <<>>
    /\ k = 1
    /\ out = <<>>

print(line) == out' = Append(out, line)

\* the process dies of an uncaught exception
Crash(e) == pc' = "crash" /\ raised' = e

\* NoArgs off by one: `len(sys.argv) < 1`
NoArgsOffByOne(a) == Len(a) < 1

\* len(sys.argv) < 2
NoArgs(a) == Len(a) < 2

\* if len(sys.argv) < 2: print(usage) else: main(sys.argv[1])
Start ==
    /\ pc = "start"
    /\ IF NoArgs(argv)
       THEN print(UsageLine) /\ pc' = "exit" /\ UNCHANGED <<raised, json_path>>
       ELSE IF Len(argv) >= 2
       THEN pc' = "exists" /\ json_path' = argv[2] /\ UNCHANGED <<raised, out>>
       ELSE Crash("IndexError") /\ UNCHANGED <<json_path, out>>
    /\ UNCHANGED <<env, fopen, opens, exc, tabs, i, domains, stats, k>>

\* CheckExists without its `return`
CheckExistsNoReturn ==
    /\ pc = "exists"
    /\ IF ~fs.exists
       THEN print(NotFoundLine(json_path)) /\ pc' = "open"
       ELSE pc' = "open" /\ UNCHANGED out
    /\ UNCHANGED <<env, raised, locals>>

\* if not os.path.exists(json_path): print(...); return
CheckExists ==
    /\ pc = "exists"
    /\ IF ~fs.exists
       THEN print(NotFoundLine(json_path)) /\ pc' = "exit"
       ELSE pc' = "open" /\ UNCHANGED out
    /\ UNCHANGED <<env, raised, locals>>

\* with open(json_path, 'r') as f
OpenFile ==
    /\ pc = "open"
    /\ IF fs.readable
       THEN fopen' = TRUE /\ opens' = opens + 1 /\ pc' = "load" /\ UNCHANGED exc
       ELSE exc' = "PermissionError" /\ pc' = "except" /\ UNCHANGED <<fopen, opens>>
    /\ UNCHANGED <<env, raised, json_path, tabs, i, domains, stats, k, out>>

\* tabs = json.load(f)
Load ==
    /\ pc = "load"
    /\ IF fs.json
       THEN tabs' = fs.val /\ UNCHANGED exc
       ELSE exc' = "JSONDecodeError" /\ UNCHANGED tabs
    /\ pc' = "close"
    /\ UNCHANGED <<env, raised, json_path, fopen, opens, i, domains, stats, k, out>>

\* Close as `f = open(...); tabs = json.load(f); f.close()` would do it:
\* the close is skipped when json.load raises
CloseOnSuccessOnly ==
    /\ pc = "close"
    /\ fopen' = (exc # "")
    /\ pc' = IF exc = "" THEN "iter" ELSE "except"
    /\ UNCHANGED <<env, raised, json_path, opens, exc, tabs, i, domains, stats, k, out>>

\* leaving the with block, normally or by the exception in flight
Close ==
    /\ pc = "close"
    /\ fopen' = FALSE
    /\ pc' = IF exc = "" THEN "iter" ELSE "except"
    /\ UNCHANGED <<env, raised, json_path, opens, exc, tabs, i, domains, stats, k, out>>

\* Except without its `return`
ExceptNoReturn ==
    /\ pc = "except"
    /\ print(ErrorReadingLine(exc, json_path))
    /\ exc' = ""
    /\ pc' = "iter"
    /\ UNCHANGED <<env, raised, json_path, fopen, opens, tabs, i, domains, stats, k>>

\* except Exception as e: print(f"Error reading JSON: {e}"); return
Except ==
    /\ pc = "except"
    /\ print(ErrorReadingLine(exc, json_path))
    /\ exc' = ""
    /\ pc' = "exit"
    /\ UNCHANGED <<env, raised, json_path, fopen, opens, tabs, i, domains, stats, k>>

\* for t in tabs: iter(tabs) of a value that is no list
Iter ==
    /\ pc = "iter"
    /\ IF tabs.kind = "list"
       THEN pc' = "extract" /\ UNCHANGED raised
       ELSE Crash("TypeError")
    /\ UNCHANGED <<env, locals, out>>

\* one element of [urlparse(t['url']).netloc for t in tabs if 'url' in t]
Extract ==
    /\ pc = "extract"
    /\ i <= Len(tabs.items)
    /\ LET t == tabs.items[i]
       IN  IF t.kind # "obj"
           THEN Crash("TypeError") /\ UNCHANGED <<i, domains>>
           ELSE IF ~HasUrl(t)
           THEN i' = i + 1 /\ UNCHANGED <<pc, raised, domains>>
           ELSE LET r == urlparse(t.url)
                IN  IF r.raises # ""
                    THEN Crash(r.raises) /\ UNCHANGED <<i, domains>>
                    ELSE /\ domains' = Append(domains, r.netloc)
                         /\ i' = i + 1
                         /\ UNCHANGED <<pc, raised>>
    /\ UNCHANGED <<env, json_path, fopen, opens, exc, tabs, stats, k, out>>

\* stats = Counter(domains).most_common()
Aggregate ==
    /\ pc = "extract"
    /\ i > Len(tabs.items)
    /\ stats' = most_common(Counter(domains))
    /\ pc' = "header"
    /\ UNCHANGED <<env, raised, json_path, fopen, opens, exc, tabs, i, domains, k, out>>

\* print(f"{'Domain':<40} | {'Count':<10}")
PrintHeader ==
    /\ pc = "header"
    /\ print(HeaderLine)
    /\ pc' = "sep"
    /\ UNCHANGED <<env, raised, locals>>

\* print("-" * 53)
PrintSeparator ==
    /\ pc = "sep"
    /\ print(SeparatorLine)
    /\ pc' = "rows"
    /\ UNCHANGED <<env, raised, locals>>

\* for domain, count in stats[:30]: print(f"{domain:<40} | {count:<10}")
\* bytes.__format__ rejects the format specification <40
PrintRow ==
    /\ pc = "rows"
    /\ k <= Len(Top(stats))
    /\ IF Top(stats)[k].domain.bytes
       THEN Crash("TypeError") /\ UNCHANGED <<k, out>>
       ELSE print(RowLine(Top(stats)[k])) /\ k' = k + 1 /\ UNCHANGED <<pc, raised>>
    /\ UNCHANGED <<env, json_path, fopen, opens, exc, tabs, i, domains, stats>>

\* the loop is exhausted and main returns
Return ==
    /\ pc = "rows"
    /\ k > Len(Top(stats))
    /\ pc' = "exit"
    /\ UNCHANGED <<env, raised, locals, out>>

\* the number of invocations a behaviour follows
MaxRuns == 2

\* Rerun with the extracted domains of the previous invocation kept, as a
\* cache written by one run and read by the next would keep them
RerunKeepingDomains ==
    /\ pc \in {"exit", "crash"}
    /\ run < MaxRuns
    /\ run' = run + 1
    /\ prevOut' = out
    /\ pc' = "start"
    /\ raised' = ""
    /\ json_path' = <<>>
    /\ fopen' = FALSE
    /\ opens' = 0
    /\ exc' = ""
    /\ tabs' = Unbound
    /\ i' = 1
    /\ stats' = <<>>
    /\ k' = 1
    /\ out' = <<>>
    /\ UNCHANGED <<argv, fs, domains>>

\* The script is invoked again with the same command line: a new process,
\* whose memory and standard output start empty.
Rerun ==
    /\ pc \in {"exit", "crash"}
    /\ run < MaxRuns
    /\ run' = run + 1
    /\ prevOut' = out
    /\ pc' = "start"
    /\ raised' = ""
    /\ json_path' = <<>>
    /\ fopen' = FALSE
    /\ opens' = 0
    /\ exc' = ""
    /\ tabs' = Unbound
    /\ i' = 1
    /\ domains' = <<>>
    /\ stats' = <<>>
    /\ k' = 1
    /\ out' = <<>>
    /\ UNCHANGED <<argv, fs>>

Next ==
    \/ Start
    \/ CheckExists
    \/ OpenFile
    \/ Load
    \/ Close
    \/ Except
    \/ Iter
    \/ Extract
    \/ Aggregate
    \/ PrintHeader
    \/ PrintSeparator
    \/ PrintRow
    \/ Return
    \/ Rerun

Spec == Init /\ [][Next]_vars

\* ------------------------------------------------------------ the properties
\* the list in the input file, when its JSON value is a list
InputItems == fs.val.items

\* number of records of l that contain a url key
UrlCount(l) == Cardinality({j \in 1..Len(l) : l[j].kind = "obj" /\ l[j].hasurl})

\* the Aggregator has run: the header is printed only after it
TableBuilt ==
    \/ pc \in {"header", "sep", "rows"}
    \/ pc \in {"exit", "crash"} /\ out # <<>> /\ out[1] = HeaderLine

RECURSIVE SumCounts(_)
SumCounts(s) == IF s = <<>> THEN 0 ELSE Head(s).count + SumCounts(Tail(s))

\* position of the first occurrence of d in ds
FirstSeen(ds, d) == CHOOSE j \in 1..Len(ds) : ds[j] = d /\ \A m \in 1..(j - 1) : ds[m] # d

DistinctDomains == {domains[j] : j \in 1..Len(domains)}

\* C1: the counts of the Frequency Table sum to the number of records that
\* contain a url key; a record without one adds no domain and raises nothing.
C1_CountsSumToUrlRecords ==
    /\ TableBuilt => SumCounts(stats) = UrlCount(InputItems)
    /\ pc = "extract" => Len(domains) = UrlCount(SubSeq(InputItems, 1, i - 1))
    /\ (pc = "crash" /\ ~TableBuilt /\ tabs.kind = "list") => tabs.items[i] # NoUrl

C1_Witness ==
    /\ pc = "exit"
    /\ TableBuilt
    /\ \E j \in 1..Len(InputItems) : InputItems[j] = NoUrl
    /\ UrlCount(InputItems) = 2
    /\ Len(stats) = 1

\* C2: the Ranking is sorted non-increasing by count, equal counts stand in
\* first-seen order, and every distinct domain is in it exactly once.
C2_RankingSortedStable ==
    TableBuilt =>
        /\ \A a, b \in 1..Len(stats) :
              a < b =>
                 /\ stats[a].count >= stats[b].count
                 /\ stats[a].domain # stats[b].domain
                 /\ stats[a].count = stats[b].count =>
                       FirstSeen(domains, stats[a].domain)
                          < FirstSeen(domains, stats[b].domain)
        /\ {stats[a].domain : a \in 1..Len(stats)} = DistinctDomains

C2_Witness ==
    /\ TableBuilt
    /\ \E a, b, c \in 1..Len(stats) :
          /\ a < b /\ b < c
          /\ stats[a].count > stats[b].count
          /\ stats[b].count = stats[c].count
          /\ FirstSeen(domains, stats[a].domain) > FirstSeen(domains, stats[c].domain)

\* C3: a successful run prints, after the header and the separator, exactly
\* min(30, number of distinct domains) rows, the first entries of the
\* Ranking in order; no run prints more than 30 rows.
C3_AtMostTopNRows ==
    /\ Len(out) <= 2 + TopN
    /\ (pc = "exit" /\ TableBuilt) =>
          out = <<HeaderLine, SeparatorLine>>
                   \o [j \in 1..Min(TopN, Cardinality(DistinctDomains)) |-> RowLine(stats[j])]

C3_Witness ==
    /\ pc = "exit"
    /\ Cardinality(DistinctDomains) > TopN
    /\ Len(out) = 2 + TopN

\* C4: whatever an existing input file holds, no run of main() ends with an
\* uncaught exception.
C4_NoUncaughtException == fs.exists => pc # "crash"

\* the input is a list of mappings whose url values are all strings
WellTyped ==
    /\ fs.exists /\ fs.readable /\ fs.json
    /\ fs.val.kind = "list"
    /\ \A j \in 1..Len(InputItems) :
          /\ InputItems[j].kind = "obj"
          /\ InputItems[j].hasurl => InputItems[j].url.t = "str"

\* C5: when every url is a string, however malformed, the Extractor raises
\* nothing and every url is counted as a domain.
C5_StringUrlsNeverRaise ==
    WellTyped =>
        /\ pc # "crash"
        /\ pc = "exit" /\ Len(argv) >= 2 => SumCounts(stats) = UrlCount(InputItems)

\* C6: for a path that does not exist the run prints the one line
\* `Error: File <path> not found.`, opens nothing, prints no table and
\* returns normally.
C6_MissingFileOneLine ==
    (Len(argv) >= 2 /\ ~fs.exists) =>
        /\ pc \in {"start", "exists", "exit"}
        /\ opens = 0 /\ ~fopen
        /\ out = IF pc = "exit" THEN <<NotFoundLine(argv[2])>> ELSE <<>>

C6_Witness ==
    /\ pc = "exit"
    /\ ~fs.exists
    /\ out = << <<"E", "r", "r", "o", "r", ":", " ", "F", "i", "l", "e", " ", "m", "i", "s", "s", "i", "n", "g", ".", "j", "s", "o", "n", " ", "n", "o", "t", " ", "f", "o", "u", "n", "d", ".">> >>

\* C7: for a path that exists and cannot be opened, or whose text is no
\* JSON, the run prints exactly one line, which begins `Error reading JSON:`,
\* runs no later stage and returns normally.
C7_UnreadableOneLine ==
    (Len(argv) >= 2 /\ fs.exists /\ (~fs.readable \/ ~fs.json)) =>
        /\ pc \in {"start", "exists", "open", "load", "close", "except", "exit"}
        /\ tabs = Unbound /\ domains = <<>> /\ stats = <<>>
        /\ pc # "exit" => out = <<>>
        /\ pc = "exit" => Len(out) = 1 /\ StartsWith(out[1], <<"E", "r", "r", "o", "r", " ", "r", "e", "a", "d", "i", "n", "g", " ", "J", "S", "O", "N", ":", " ">>)

C7_Witness ==
    /\ pc = "exit"
    /\ fs = NotJson
    /\ Len(out) = 1
    /\ StartsWith(out[1], <<"E", "r", "r", "o", "r", " ", "r", "e", "a", "d", "i", "n", "g", " ", "J", "S", "O", "N", ":", " ", "E", "x", "p", "e", "c", "t", "i", "n", "g">>)

\* C8: the file is opened at most once per run, and the handle is open only
\* between open() and the end of the with block: never while a later stage
\* runs, in the except clause, or when the run has ended.
C8_HandleScoped ==
    /\ opens <= 1
    /\ fopen => pc \in {"load", "close"} /\ opens = 1
    /\ pc \in {"load", "close"} => fopen

C8_Witness ==
    /\ pc = "except"
    /\ exc = "JSONDecodeError"
    /\ opens = 1
    /\ ~fopen

C10_UsageOnly ==
    Len(argv) < 2 =>
        /\ pc \in {"start", "exit"}
        /\ raised = ""
        /\ json_path = <<>> /\ opens = 0 /\ ~fopen
        /\ out = IF pc = "exit" THEN <<UsageLine>> ELSE <<>>

C10_Witness ==
    /\ Len(argv) = 1
    /\ pc = "exit"
    /\ out = << <<"U", "s", "a", "g", "e", ":", " ", "p", "y", "t", "h", "o", "n", "3", " ", "t", "a", "b", "_", "s", "t", "a", "t", "s", ".", "p", "y", " ", "<", "p", "a", "t", "h", "_", "t", "o", "_", "j", "s", "o", "n", ">">> >>

====
